---- MODULE Spec2Model ----
(***************************************************************************)
(* MoodMuse: the multimodal recommendation engine (feature fusion,         *)
(* similarity ranking, mood mapping, the five recommendation modes) and    *)
(* the React front end that calls it through the shared axios instance     *)
(* (Dashboard, MoodSelector, ImageUploader, the api interceptors).         *)
(***************************************************************************)
EXTENDS Integers, Sequences, FiniteSets, TLC

VARIABLES
    \* ---- recommendation engine ----
    candidates,     \* the candidate sequence handed to rank: <<[id, vec]>>
    vectorStore,    \* VectorStore: song id -> its modality vectors and popularity
    fusionPolicy,   \* FusionPolicy table: mode -> modality weights
    moodTable,      \* MoodMapper table: mood label -> MoodVector
    userHistory,    \* UserProfile: the liked/played song ids of the user
    lastCall,       \* the last engine call and its arguments
    result,         \* what that call returned: status, items, skipped
    pendingParts,   \* parallel ranking: partial results not yet merged
    merged,         \* parallel ranking: the top-k merge so far
    \* ---- browser and shared axios instance ----
    token,          \* localStorage item 'token' (NoToken when absent)
    location,       \* the path shown: "/" (Dashboard) or "/login"
    reloading,      \* window.location.href was assigned: the document is leaving
    pageAlive,      \* FALSE once the document has been unloaded
    sent,           \* every request sent through the axios instance, by id
    pending,        \* the ids of the requests not yet answered
    \* ---- AuthContext ----
    user,           \* AuthProvider user (NoUser when not authenticated)
    authLoading,    \* AuthProvider loading
    authEffectDue,  \* AuthProvider's mount effect has not run yet
    \* ---- Dashboard ----
    mounted,        \* the Dashboard is mounted
    dash,           \* the Dashboard's useState values, by their names
    dashEffectDue,  \* the [isAuthenticated] effect has to run
    runs,           \* the fetchDashboardData invocations, in order
    errorCause,     \* what failed when dash.error was last set
    \* ---- ImageUploader ----
    selectedImage,  \* ImageUploader selectedImage
    uploaderError,  \* ImageUploader error
    \* ---- PlayerContext ----
    currentSong,    \* PlayerProvider currentSong (NoSong before the first play)
    isPlaying,      \* PlayerProvider isPlaying
    audio,          \* the Audio element of audioRef
    playerEffects,  \* the effects of PlayerProvider that have to run
    changes,        \* the runs of the [currentSong] effect that loaded a song
    playerCall,     \* the last function of the context a component called
    \* ---- Login and Register pages ----
    authError,      \* AuthProvider error
    form,           \* the useState values of the mounted Login or Register
    pageEffects,    \* the effects of that page that have to run
    lastLogin       \* the last login call: how its promise settled, and the
                    \* error it set if no input was changed since

engineVars == <<candidates, vectorStore, fusionPolicy, moodTable, userHistory,
                lastCall, result, pendingParts, merged>>

frontVars == <<token, location, reloading, pageAlive, sent, pending, user,
               authLoading, authEffectDue, mounted, dash, dashEffectDue, runs,
               errorCause, selectedImage, uploaderError>>

playerVars == <<currentSong, isPlaying, audio, playerEffects, changes,
                playerCall>>

authPageVars == <<authError, form, pageEffects, lastLogin>>

vars == <<engineVars, frontVars, playerVars, authPageVars>>

-----------------------------------------------------------------------------
(* Bounds of the model *)

MaxSongs == 3

Songs == 1..MaxSongs

\* k ranges over the non-positive values, the values below the candidate
\* count and one value above it
KRange == (0 - 1)..(MaxSongs + 1)

-----------------------------------------------------------------------------
(* Vectors *)

Min(a, b) == IF a < b THEN a ELSE b

RECURSIVE DotFrom(_, _, _)
DotFrom(a, b, i) ==
    IF i > Len(a) THEN 0 ELSE a[i] * b[i] + DotFrom(a, b, i + 1)

\* dot(a, b), for vectors of equal length
Dot(a, b) == DotFrom(a, b, 1)

\* the squared Euclidean norm
Norm2(a) == Dot(a, a)

Sgn(x) == IF x > 0 THEN 1 ELSE IF x < 0 THEN 0 - 1 ELSE 0

\* Cosine similarity dot(q,c) / (|q| |c|), kept exact as the signed square
\* sgn(d) d^2 / (|q|^2 |c|^2): x -> sgn(x) x^2 is strictly increasing, so the
\* order and the ties of the signed squares are those of the cosines.
Cosine(q, c) ==
    LET d == Dot(q, c)
    IN  [num |-> Sgn(d) * d * d, den |-> Norm2(q) * Norm2(c)]

\* comparison of two scores by cross-multiplication (denominators are > 0)
ScoreLess(x, y) == x.num * y.den < y.num * x.den
ScoreEq(x, y) == x.num * y.den = y.num * x.den

Scale(w, v) == [i \in 1..Len(v) |-> w * v[i]]

ZeroVec(n) == [i \in 1..n |-> 0]

\* componentwise sum of two vectors of equal length
VecAdd(a, b) == [i \in 1..Len(a) |-> a[i] + b[i]]

-----------------------------------------------------------------------------
(* SimilarityEngine.rank *)

Ok(items, skipped) == [status |-> "ok", items |-> items, skipped |-> skipped]
Err(name) == [status |-> name, items |-> <<>>, skipped |-> 0]

\* a mutant of Before: descending similarity, ties left in arrival order
BeforeNoTieBreak(q, a, b) == ScoreLess(Cosine(q, b.vec), Cosine(q, a.vec))

\* a ranks before b: higher similarity first, equal similarity by ascending id
Before(q, a, b) ==
    \/ ScoreLess(Cosine(q, b.vec), Cosine(q, a.vec))
    \/ /\ ScoreEq(Cosine(q, a.vec), Cosine(q, b.vec))
       /\ a.id < b.id

RECURSIVE Insert(_, _, _)
Insert(q, x, s) ==
    IF s = <<>> THEN <<x>>
    ELSE IF Before(q, x, Head(s)) THEN <<x>> \o s
    ELSE <<Head(s)>> \o Insert(q, x, Tail(s))

\* the candidates sorted by Before (a copy: the argument is left as it is)
RECURSIVE SortCandidates(_, _)
SortCandidates(q, s) ==
    IF s = <<>> THEN <<>> ELSE Insert(q, Head(s), SortCandidates(q, Tail(s)))

\* a mutant of TopK: the cut is forgotten
TopKAll(s, k) == s

\* the first k elements of s (all of s when k exceeds its length)
TopK(s, k) == SubSeq(s, 1, Min(k, Len(s)))

NonZero(c) == Norm2(c.vec) # 0

\* a mutant of Scored: zero-norm candidates are scored instead of skipped
ScoredAll(cands) == cands

\* the candidates that are scored: those with a nonzero-norm fused vector
Scored(cands) == SelectSeq(cands, NonZero)

WithScore(q, s) ==
    [i \in 1..Len(s) |->
        [id |-> s[i].id, vec |-> s[i].vec, score |-> Cosine(q, s[i].vec)]]

\* rank(query, candidates, k)
Rank(query, cands, k) ==
    IF k <= 0 \/ Len(cands) = 0 THEN Ok(<<>>, 0)
    ELSE IF \E i \in 1..Len(cands) : Len(cands[i].vec) # Len(query)
         THEN Err("DimensionMismatchError")
    ELSE IF Norm2(query) = 0 THEN Err("DegenerateVectorError")
    ELSE LET scored == Scored(cands)
         IN  Ok(WithScore(query, TopK(SortCandidates(query, scored), k)),
                Len(cands) - Len(scored))

Ids(items) == [i \in 1..Len(items) |-> items[i].id]


-----------------------------------------------------------------------------
(* FeatureFusion *)

\* a modality the song has no vector for
Missing == <<>>

Modalities == <<"audio", "image", "text">>

\* the length recorded for each modality's vectors
ModalityDim == [audio |-> 2, image |-> 1, text |-> 1]

\* the modality vectors a song may have in the store, with its play count:
\* complete, another direction, nothing extracted at all, and a corrupt
\* audio vector of the wrong length
SongChoices ==
    { [audio |-> <<1, 0>>, image |-> <<1>>, text |-> <<0>>, plays |-> 2],
      [audio |-> <<0, 1>>, image |-> <<0>>, text |-> <<1>>, plays |-> 1],
      [audio |-> Missing, image |-> Missing, text |-> Missing, plays |-> 1],
      [audio |-> <<1>>, image |-> <<1>>, text |-> <<0>>, plays |-> 0] }

\* FusionPolicy per recommendation mode (normalization mode: none)
Policies ==
    [bySong |-> [audio |-> 1, image |-> 1, text |-> 1],
     byMood |-> [audio |-> 2, image |-> 0, text |-> 1],
     byImage |-> [audio |-> 0, image |-> 1, text |-> 0]]

\* the closed set of mood labels and a representative MoodVector for each, in
\* the fused space of the by-mood policy (audio, audio, text)
MoodLabels == {"happy", "sad", "energetic", "calm", "romantic", "melancholic"}

MoodVectors ==
    [happy |-> <<2, 0, 1>>, sad |-> <<0, 2, 1>>, energetic |-> <<2, 0, 0>>,
     calm |-> <<0, 2, 0>>, romantic |-> <<1, 1, 1>>, melancholic |-> <<0, 1, 1>>]

\* one modality's contribution: the stored vector, or zeros when it is missing
ModalityPart(songVectors, m) ==
    IF songVectors[m] = Missing THEN ZeroVec(ModalityDim[m]) ELSE songVectors[m]

RECURSIVE FuseFrom(_, _, _)
FuseFrom(songVectors, policy, i) ==
    IF i > Len(Modalities) THEN <<>>
    ELSE LET m == Modalities[i]
         IN  (IF policy[m] > 0
                 THEN Scale(policy[m], ModalityPart(songVectors, m))
                 ELSE <<>>)
             \o FuseFrom(songVectors, policy, i + 1)

\* fuse(songVectors, policy): weighted modality vectors, concatenated in the
\* fixed modality order; a modality of weight 0 contributes no dimensions
Fuse(songVectors, policy) ==
    IF \E i \in 1..Len(Modalities) :
          /\ policy[Modalities[i]] > 0
          /\ Len(ModalityPart(songVectors, Modalities[i]))
                # ModalityDim[Modalities[i]]
    THEN [status |-> "DimensionMismatchError", vec |-> <<>>]
    ELSE [status |-> "ok", vec |-> FuseFrom(songVectors, policy, 1)]

\* fuseQuery from a raw image vector: audio and text are neutral placeholders
FuseQueryImage(imageVector, policy) ==
    Fuse([audio |-> Missing, image |-> imageVector, text |-> Missing], policy)

\* the store's songs as candidates under a policy, in listing order
FusedCandidates(store, policy) ==
    [i \in 1..MaxSongs |-> [id |-> i, vec |-> Fuse(store[i], policy).vec]]

FuseFails(store, policy) ==
    \E i \in Songs : Fuse(store[i], policy).status # "ok"

-----------------------------------------------------------------------------
(* RecommendationEngine *)

Annotate(res, reason) ==
    IF res.status # "ok" THEN res
    ELSE [res EXCEPT !.items =
            [i \in 1..Len(res.items) |->
                [id |-> res.items[i].id, vec |-> res.items[i].vec,
                 score |-> res.items[i].score, reason |-> reason]]]

\* a mutant of VectorForMood: an unknown label silently gets a default vector
VectorForMoodDefault(table, label) ==
    IF label \in DOMAIN table
        THEN [status |-> "ok", vec |-> table[label]]
        ELSE [status |-> "ok", vec |-> <<1, 1, 1>>]

\* MoodMapper.vectorForMood
VectorForMood(table, label) ==
    IF label \in DOMAIN table
        THEN [status |-> "ok", vec |-> table[label]]
        ELSE [status |-> "UnknownMoodError", vec |-> <<>>]

RECURSIVE SumVecs(_, _, _)
SumVecs(cands, ids, i) ==
    IF i > Len(cands) THEN ZeroVec(Len(cands[1].vec))
    ELSE IF cands[i].id \in ids
         THEN VecAdd(cands[i].vec, SumVecs(cands, ids, i + 1))
         ELSE SumVecs(cands, ids, i + 1)

\* a mutant of Centroid: an empty history silently yields the zero vector
CentroidOrZero(cands, ids) ==
    [status |-> "ok", vec |-> SumVecs(cands, ids, 1)]

\* The centroid of the fused vectors of the songs in ids. The mean is the sum
\* divided by |ids| > 0; cosine similarity does not change under a positive
\* scaling of the query, so the sum stands for the mean.
Centroid(cands, ids) ==
    IF ids = {} THEN [status |-> "InsufficientHistoryError", vec |-> <<>>]
    ELSE [status |-> "ok", vec |-> SumVecs(cands, ids, 1)]

\* a ranks before b by popularity: more plays first, then ascending id
MorePopular(a, b) == a.plays > b.plays \/ (a.plays = b.plays /\ a.id < b.id)

RECURSIVE InsertPopular(_, _)
InsertPopular(x, s) ==
    IF s = <<>> THEN <<x>>
    ELSE IF MorePopular(x, Head(s)) THEN <<x>> \o s
    ELSE <<Head(s)>> \o InsertPopular(x, Tail(s))

RECURSIVE SortPopular(_)
SortPopular(s) ==
    IF s = <<>> THEN <<>> ELSE InsertPopular(Head(s), SortPopular(Tail(s)))

\* the request's query, or the typed error that building it raised
QueryThenRank(q, store, policy, k, reason) ==
    IF q.status # "ok" THEN Err(q.status)
    ELSE IF FuseFails(store, policy) THEN Err("DimensionMismatchError")
    ELSE Annotate(Rank(q.vec, FusedCandidates(store, policy), k), reason)

recommendBySong(store, pol, songId, k) ==
    QueryThenRank(Fuse(store[songId], pol.bySong), store, pol.bySong, k,
                  "similar to seed")

recommendByMood(store, pol, table, label, k) ==
    QueryThenRank(VectorForMood(table, label), store, pol.byMood, k,
                  "matches mood")

recommendByImage(store, pol, imageVector, k) ==
    QueryThenRank(FuseQueryImage(imageVector, pol.byImage), store, pol.byImage,
                  k, "visual style match")

recommendPersonalized(store, pol, history, k) ==
    IF history # {} /\ FuseFails(store, pol.bySong)
        THEN Err("DimensionMismatchError")
    ELSE QueryThenRank(Centroid(FusedCandidates(store, pol.bySong), history),
                       store, pol.bySong, k, "based on your listening history")

recommendPopular(store, k) ==
    IF k <= 0 THEN Ok(<<>>, 0)
    ELSE LET all == [i \in 1..MaxSongs |-> [id |-> i, plays |-> store[i].plays]]
             top == TopK(SortPopular(all), k)
         IN  Ok([i \in 1..Len(top) |->
                    [id |-> top[i].id, score |-> top[i].plays,
                     reason |-> "trending"]], 0)


-----------------------------------------------------------------------------
(* The front end: values *)

NoToken == "none"
NoUser == "none"
NoError == "none"
NoMood == "none"
NoFile == "none"
NoAnalysis == "none"
NoHeader == <<>>
NoBody == <<>>

\* a token the browser may hold when the page is opened
Tokens == {"t1"}

\* JavaScript truthiness of localStorage.getItem('token')
\* a test that takes every stored value for no token
TruthyNever(tok) == FALSE

Truthy(tok) == tok # NoToken /\ tok # ""

\* the header value `Bearer ${token}`
Bearer(tok) == <<"Bearer", tok>>

\* the messages the Dashboard shows
MsgLoadFailed == "Failed to load recommendations. Please try again later."
MsgMoodFailed == "Failed to load mood recommendations. Please try again."
MsgImageFailed == "Failed to analyze image. Please try again."

\* a mood array with a card whose id the recommendation service does not know
MoodCardsWithAngry ==
    <<"happy", "sad", "energetic", "calm", "romantic", "melancholic", "angry">>

\* the ids of the moods array of MoodSelector, in its order
MoodCards == <<"happy", "sad", "energetic", "calm", "romantic", "melancholic">>

\* the members of the default export of services/api.js, the axios instance;
\* getRecommendationsByImage and the other API functions are named exports of
\* the module, not members of the instance
ApiDefaultExport ==
    {"request", "get", "delete", "head", "options", "post", "put", "patch",
     "getUri", "defaults", "interceptors"}

\* files a user may drop on ImageUploader: their MIME type, character by
\* character as far as the model needs it, and
\* size in bytes
Files == {"photo.png", "huge.png", "notes.txt"}
FileType ==
    [f \in Files |-> IF f = "notes.txt" THEN <<"text", "/", "plain">>
                                        ELSE <<"image", "/", "png">>]
FileSize ==
    [f \in Files |-> IF f = "huge.png" THEN 5 * 1024 * 1024 + 1
                                       ELSE 5 * 1024 * 1024]

\* what the server may answer: a success, or a failure with its status and
\* the detail naming the cause; hasResponse is FALSE for a network failure
OkOutcome ==
    [ok |-> TRUE, hasResponse |-> TRUE, status |-> 200, detail |-> "ok"]
Failure(status, detail) ==
    [ok |-> FALSE, hasResponse |-> TRUE, status |-> status, detail |-> detail]
Unauthorized == Failure(401, "Unauthorized")
ServerError == Failure(500, "ServerError")
NetworkError ==
    [ok |-> FALSE, hasResponse |-> FALSE, status |-> 0, detail |-> "NetworkError"]

Outcomes(kind) ==
    {OkOutcome, Unauthorized, ServerError, NetworkError}
    \cup (IF kind = "mood" THEN {Failure(400, "UnknownMoodError")} ELSE {})
    \cup (IF kind = "personal"
             THEN {Failure(400, "InsufficientHistoryError")} ELSE {})

\* the payload of the successful answer to request r: one song, told apart
\* from the payloads of the other requests; a request is named by its kind and
\* the run of fetchDashboardData, or the click, that sent it
DataOf(r) == <<r>>

\* useState initial values of Dashboard
DashInit ==
    [popularSongs |-> <<>>, personalRecommendations |-> <<>>,
     recentlyPlayed |-> <<>>, loading |-> TRUE, error |-> NoError,
     selectedTab |-> "discover", selectedMood |-> NoMood,
     moodRecommendations |-> <<>>, uploadedImage |-> NoFile,
     imageRecommendations |-> <<>>, imageAnalysis |-> NoAnalysis,
     loadingRecommendations |-> FALSE]

NoSong == "none"

\* the Audio element after the mount effects of PlayerProvider: no source,
\* paused, no play() promise outstanding
AudioInit ==
    [src |-> NoSong, playing |-> FALSE, playPromise |-> "none",
     playedSinceLoad |-> FALSE]

\* PlayerProvider after its mount effects
PlayerStart ==
    /\ currentSong = NoSong
    /\ isPlaying = FALSE
    /\ audio = AudioInit
    /\ playerEffects = {}
    /\ changes = <<>>
    /\ playerCall = "none"

\* useState initial values of Login and of Register
FormInit ==
    [username |-> <<>>, email |-> <<>>, password |-> <<>>,
     confirmPassword |-> <<>>, formError |-> ""]

NoLogin == [settled |-> "none", error |-> NoError]

\* no Login or Register page is mounted and AuthProvider has no error
AuthPageStart ==
    /\ authError = NoError
    /\ form = FormInit
    /\ pageEffects = {}
    /\ lastLogin = NoLogin

\* the page as constructed: first render done, no effect run yet
FrontStart(tok) ==
    /\ PlayerStart
    /\ AuthPageStart
    /\ token = tok
    /\ location = "/"
    /\ reloading = FALSE
    /\ pageAlive = TRUE
    /\ sent = <<>>
    /\ pending = {}
    /\ user = NoUser
    /\ authLoading = TRUE
    /\ authEffectDue = TRUE
    /\ mounted = TRUE
    /\ dash = DashInit
    /\ dashEffectDue = TRUE
    /\ runs = <<>>
    /\ errorCause = NoError
    /\ selectedImage = NoFile
    /\ uploaderError = NoError

-----------------------------------------------------------------------------
(* Direct calls of SimilarityEngine.rank on arbitrary inputs *)

\* fused vectors a candidate or a query may carry: two directions, a multiple
\* of the first (equal cosine), the opposite direction, the zero vector and a
\* vector of another length
FusedPool == {<<1, 0>>, <<0, 1>>, <<2, 0>>, <<0 - 1, 0>>, <<0, 0>>, <<1>>}

Injective(f) == \A i, j \in DOMAIN f : f[i] = f[j] => i = j

\* sequences of distinct song ids, in any order
IdSeqs ==
    UNION {{ids \in [1..n -> Songs] : Injective(ids)} : n \in 0..MaxSongs}

CandidateSeqsOver(idSeqs, pool) ==
    UNION {{[i \in 1..Len(ids) |-> [id |-> ids[i], vec |-> vs[i]]] :
               vs \in [1..Len(ids) -> pool]} : ids \in idSeqs}

CandidateSeqs == CandidateSeqsOver(IdSeqs, FusedPool)

NoCall == [op |-> "none"]

EngineTables ==
    /\ fusionPolicy = Policies
    /\ moodTable = MoodVectors

NoParallel ==
    /\ pendingParts = {}
    /\ merged = Ok(<<>>, 0)

InitRank ==
    /\ candidates \in CandidateSeqs
    /\ vectorStore = [i \in Songs |-> CHOOSE c \in SongChoices : c.plays = 2]
    /\ userHistory = {}
    /\ EngineTables
    /\ NoParallel
    /\ FrontStart(NoToken)
    /\ lastCall = NoCall
    /\ result = Ok(<<>>, 0)

\* a mutant of RankCall: the caller's sequence is sorted in place
RankCallInPlace(q, k) ==
    /\ lastCall' = [op |-> "rank", query |-> q, k |-> k]
    /\ result' = Rank(q, candidates, k)
    /\ candidates' = IF result'.status = "ok" /\ k > 0
                        THEN SortCandidates(q, Scored(candidates))
                        ELSE candidates
    /\ UNCHANGED <<frontVars, playerVars, authPageVars, vectorStore, fusionPolicy, moodTable, userHistory,
                   pendingParts, merged>>

\* rank(q, candidates, k) called on the candidate sequence
RankCall(q, k) ==
    /\ lastCall' = [op |-> "rank", query |-> q, k |-> k]
    /\ result' = Rank(q, candidates, k)
    /\ UNCHANGED <<frontVars, playerVars, authPageVars, candidates, vectorStore, fusionPolicy, moodTable,
                   userHistory, pendingParts, merged>>

\* one call per drawn input: rank is a pure function of its arguments
NextRank ==
    /\ lastCall = NoCall
    /\ \E q \in FusedPool, k \in KRange : RankCall(q, k)

SpecRank == InitRank /\ [][NextRank]_vars


-----------------------------------------------------------------------------
(* The recommendation requests of the core API *)

\* the values of k a request is made with: none asked for, and a top-2
RequestKs == {0, 2}

\* labels a caller may pass: the closed set and one label outside it
RequestLabels == MoodLabels \cup {"unknown-mood"}

\* raw image vectors a caller may pass: two valid, one all-zero, one too long
RequestImages == {<<1>>, <<2>>, <<0>>, <<1, 1>>}

\* queries of direct rank calls, in the fused space of the by-song policy
RequestQueries == {<<1, 0, 1, 0>>, <<0, 1, 0, 1>>}

EngineFrame ==
    UNCHANGED <<frontVars, playerVars, authPageVars, candidates, vectorStore, fusionPolicy, moodTable, userHistory,
                pendingParts, merged>>

InitEngine ==
    /\ vectorStore \in [Songs -> SongChoices]
    /\ userHistory \in {1..n : n \in 0..MaxSongs}
    /\ candidates = FusedCandidates(vectorStore, Policies.bySong)
    /\ EngineTables
    /\ NoParallel
    /\ FrontStart(NoToken)
    /\ lastCall = NoCall
    /\ result = Ok(<<>>, 0)

RecommendBySong(songId, k) ==
    /\ lastCall' = [op |-> "recommendBySong", arg |-> songId, k |-> k]
    /\ result' = recommendBySong(vectorStore, fusionPolicy, songId, k)
    /\ EngineFrame

\* a mutant of RecommendByMood: the vector looked up is memoized in the mood
\* table, an unknown label under a default
RecommendByMoodMemo(label, k) ==
    /\ lastCall' = [op |-> "recommendByMood", arg |-> label, k |-> k]
    /\ result' = recommendByMood(vectorStore, fusionPolicy, moodTable, label, k)
    /\ moodTable' = [l \in DOMAIN moodTable \cup {label} |->
                        VectorForMoodDefault(moodTable, l).vec]
    /\ UNCHANGED <<frontVars, playerVars, authPageVars, candidates, vectorStore, fusionPolicy, userHistory,
                   pendingParts, merged>>

RecommendByMood(label, k) ==
    /\ lastCall' = [op |-> "recommendByMood", arg |-> label, k |-> k]
    /\ result' = recommendByMood(vectorStore, fusionPolicy, moodTable, label, k)
    /\ EngineFrame

RecommendByImage(imageVector, k) ==
    /\ lastCall' = [op |-> "recommendByImage", arg |-> imageVector, k |-> k]
    /\ result' = recommendByImage(vectorStore, fusionPolicy, imageVector, k)
    /\ EngineFrame

RecommendPersonalized(k) ==
    /\ lastCall' = [op |-> "recommendPersonalized", arg |-> userHistory, k |-> k]
    /\ result' = recommendPersonalized(vectorStore, fusionPolicy, userHistory, k)
    /\ EngineFrame

RecommendPopular(k) ==
    /\ lastCall' = [op |-> "recommendPopular", arg |-> <<>>, k |-> k]
    /\ result' = recommendPopular(vectorStore, k)
    /\ EngineFrame

NextEngine ==
    \/ \E q \in RequestQueries, k \in RequestKs : RankCall(q, k)
    \/ \E s \in Songs, k \in RequestKs : RecommendBySong(s, k)
    \/ \E l \in RequestLabels, k \in RequestKs : RecommendByMood(l, k)
    \/ \E v \in RequestImages, k \in RequestKs : RecommendByImage(v, k)
    \/ \E k \in RequestKs : RecommendPersonalized(k)
    \/ \E k \in RequestKs : RecommendPopular(k)

SpecEngine == InitEngine /\ [][NextEngine]_vars


-----------------------------------------------------------------------------
(* Ranking split across two independent candidate subsets, and the merge *)

Parts == {1, 2}

\* vectors and queries of the parallel runs: a direction, a multiple of it
\* (equal cosine), a third direction and the zero vector
MergePool == {<<1, 0>>, <<2, 0>>, <<1, 1>>, <<0, 0>>}
MergeQueries == {<<1, 0>>, <<0, 1>>, <<0, 0>>}

\* candidate sequences in listing order (ascending id), over MergePool
MergeCandidateSeqs ==
    CandidateSeqsOver(
        {ids \in IdSeqs : \A i, j \in 1..Len(ids) : i < j => ids[i] < ids[j]},
        MergePool)

\* the candidates a split assigns to part p, in their order
RECURSIVE PartOf(_, _, _, _)
PartOf(cands, split, p, i) ==
    IF i > Len(cands) THEN <<>>
    ELSE (IF split[i] = p THEN <<cands[i]>> ELSE <<>>)
         \o PartOf(cands, split, p, i + 1)

StripScore(items) ==
    [i \in 1..Len(items) |-> [id |-> items[i].id, vec |-> items[i].vec]]

\* a mutant of MergeTopK: partial results are appended as they arrive and cut
MergeArrivalOrder(q, acc, part, k) ==
    IF acc.status # "ok" THEN acc
    ELSE IF part.status # "ok" THEN part
    ELSE Ok(TopK(acc.items \o part.items, k), acc.skipped + part.skipped)

\* the top-k merge of the merge so far with one partial result: the union is
\* sorted again by similarity and id, then cut to k; a failed part fails the
\* whole ranking
MergeTopK(q, acc, part, k) ==
    IF acc.status # "ok" THEN acc
    ELSE IF part.status # "ok" THEN part
    ELSE Ok(WithScore(q, TopK(SortCandidates(q,
                StripScore(acc.items) \o StripScore(part.items)), k)),
            acc.skipped + part.skipped)

InitMerge ==
    /\ candidates \in MergeCandidateSeqs
    /\ vectorStore = [i \in Songs |-> CHOOSE c \in SongChoices : c.plays = 2]
    /\ userHistory = {}
    /\ EngineTables
    /\ NoParallel
    /\ FrontStart(NoToken)
    /\ lastCall = NoCall
    /\ result = Ok(<<>>, 0)

\* each subset is ranked on its own; result is what one sequential call gives
StartParallel(q, k, split) ==
    /\ lastCall = NoCall
    /\ lastCall' = [op |-> "parallelRank", query |-> q, k |-> k, split |-> split]
    /\ pendingParts' =
          {[part |-> p, res |-> Rank(q, PartOf(candidates, split, p, 1), k)] :
              p \in Parts}
    /\ merged' = Ok(<<>>, 0)
    /\ result' = Rank(q, candidates, k)
    /\ UNCHANGED <<frontVars, playerVars, authPageVars, candidates, vectorStore, fusionPolicy, moodTable, userHistory>>

\* one partial result arrives and is merged
PartialArrives(p) ==
    /\ p \in pendingParts
    /\ merged' = MergeTopK(lastCall.query, merged, p.res, lastCall.k)
    /\ pendingParts' = pendingParts \ {p}
    /\ UNCHANGED <<frontVars, playerVars, authPageVars, candidates, vectorStore, fusionPolicy, moodTable, userHistory,
                   lastCall, result>>

NextMerge ==
    \/ \E q \in MergeQueries, k \in 0..MaxSongs,
          split \in [1..Len(candidates) -> Parts] : StartParallel(q, k, split)
    \/ \E p \in pendingParts : PartialArrives(p)

SpecMerge == InitMerge /\ [][NextMerge]_vars

-----------------------------------------------------------------------------
(* The front end: the page served at "/" (Spec) *)

\* the bound on the mood cards a user clicks in one page load
MaxMoodSelects == 1

\* an interceptor that writes the header whatever localStorage returned
RequestInterceptorAlways(config, tok) == [config EXCEPT !.auth = Bearer(tok)]

\* api.interceptors.request: the token is read when the request is sent
RequestInterceptor(config, tok) ==
    IF Truthy(tok) THEN [config EXCEPT !.auth = Bearer(tok)] ELSE config

\* a request of the shared axios instance as it leaves the browser; callerAuth
\* is the Authorization header the caller passed, tokenAtSend what
\* localStorage held when the interceptor ran
Request(kind, method, url, params, callerAuth, body, run) ==
    RequestInterceptor(
        [kind |-> kind, method |-> method, url |-> url, params |-> params,
         auth |-> callerAuth, body |-> body, run |-> run,
         callerAuth |-> callerAuth, tokenAtSend |-> token], token)

\* an interceptor that treats every failed answer as a 401
ResponseInterceptorAnyError(o) ==
    /\ token' = IF ~o.ok THEN NoToken ELSE token
    /\ reloading' = (reloading \/ ~o.ok)

\* api.interceptors.response, error branch: a 401 answer removes the token
\* and starts loading /login
Is401(o) == ~o.ok /\ o.hasResponse /\ o.status = 401

ResponseInterceptor(o) ==
    /\ token' = IF Is401(o) THEN NoToken ELSE token
    /\ reloading' = (reloading \/ Is401(o))

\* a state update of Dashboard: dropped once the component is unmounted
SetState(d) == IF mounted THEN d ELSE dash

SetCause(c) == IF mounted THEN c ELSE errorCause

\* no handler or effect is running and the page has not been left
Idle == pageAlive /\ ~dashEffectDue /\ ~authEffectDue

\* the Dashboard shows its tabs: it is mounted and not rendering the spinner
TabsShown == Idle /\ mounted /\ ~dash.loading

\* ImageUploader keeps its state only while it is rendered
UploaderReset ==
    /\ selectedImage' = NoFile
    /\ uploaderError' = NoError

AuthFrame == UNCHANGED <<user, authLoading, authEffectDue>>

\* the router stops rendering Dashboard: the state of the component and of
\* its children is discarded
UnmountDashboard ==
    /\ mounted' = FALSE
    /\ dash' = DashInit
    /\ errorCause' = NoError
    /\ UploaderReset

\* a catch block that also drops the popular songs already stored
CatchFetchDashboardClearing(d) ==
    [d EXCEPT !.error = MsgLoadFailed, !.loading = FALSE, !.popularSongs = <<>>]

\* catch and finally of fetchDashboardData
CatchFetchDashboard(d) == [d EXCEPT !.error = MsgLoadFailed, !.loading = FALSE]

\* the effect of Dashboard on [isAuthenticated]: fetchDashboardData up to its
\* first await
FetchDashboardData ==
    /\ pageAlive
    /\ dashEffectDue
    /\ mounted
    /\ dashEffectDue' = FALSE
    /\ dash' = [dash EXCEPT !.loading = TRUE, !.error = NoError]
    /\ errorCause' = NoError
    /\ sent' = sent @@ (<<"popular", Len(runs) + 1>> :>
                      Request("popular", "GET", <<"/recommendations/popular">>,
                              <<"limit", 10>>, NoHeader, NoBody, Len(runs) + 1))
    /\ pending' = pending \cup {<<"popular", Len(runs) + 1>>}
    /\ runs' = Append(runs, [isAuthenticated |-> user # NoUser,
                             pc |-> "popular", got |-> {},
                             failedAt |-> "none"])
    /\ UploaderReset
    /\ AuthFrame
    /\ UNCHANGED <<token, location, reloading, pageAlive, mounted, engineVars, playerVars, authPageVars>>

\* the mount effect of AuthProvider; it runs after the effects of its children
AuthProviderMount ==
    /\ pageAlive
    /\ ~dashEffectDue
    /\ authEffectDue
    /\ authEffectDue' = FALSE
    /\ IF Truthy(token)
          THEN /\ authLoading' = TRUE
               /\ sent' = sent @@ (<<"me", 0>> :>
                                 Request("me", "GET", <<"/users/me">>, <<>>,
                                         Bearer(token), NoBody, 0))
               /\ pending' = pending \cup {<<"me", 0>>}
          ELSE /\ authLoading' = FALSE
               /\ UNCHANGED <<sent, pending>>
    /\ UNCHANGED <<token, location, reloading, pageAlive, user, mounted, dash,
                   dashEffectDue, runs, errorCause, selectedImage,
                   uploaderError, engineVars, playerVars, authPageVars>>

\* fetchUserProfile after its await; its catch calls logout
ProfileResponse(r, o) ==
    /\ Idle
    /\ r \in pending
    /\ sent[r].kind = "me"
    /\ o \in Outcomes("me")
    /\ pending' = pending \ {r}
    /\ authLoading' = FALSE
    /\ IF o.ok
          THEN /\ user' = "user"
               /\ dashEffectDue' = mounted
               /\ ResponseInterceptor(o)
               /\ UNCHANGED <<location, mounted, dash, errorCause,
                              selectedImage, uploaderError>>
          ELSE /\ token' = NoToken
               /\ reloading' = (reloading \/ Is401(o))
               /\ user' = NoUser
               /\ location' = "/login"
               /\ UnmountDashboard
               /\ UNCHANGED dashEffectDue
    /\ UNCHANGED <<pageAlive, sent, authEffectDue, runs, engineVars, playerVars, authPageVars>>

\* a fetch that asks for the personalized data whoever is looking
FetchesPersonalAlways(run) == TRUE

\* if (isAuthenticated), with the value the effect closed over
FetchesPersonal(run) == run.isAuthenticated

\* fetchDashboardData after the await of the popular songs
PopularResponse(r, o) ==
    /\ Idle
    /\ r \in pending
    /\ sent[r].kind = "popular"
    /\ o \in Outcomes("popular")
    /\ ResponseInterceptor(o)
    /\ LET n == sent[r].run
           run == runs[n]
       IN  IF o.ok
              THEN IF FetchesPersonal(run)
                      THEN /\ dash' = SetState([dash EXCEPT
                                                  !.popularSongs = DataOf(r)])
                           /\ sent' = sent
                                @@ (<<"personal", n>> :>
                                    Request("personal", "GET",
                                            <<"/recommendations/user">>,
                                            <<"limit", 5>>, NoHeader, NoBody,
                                            n))
                                @@ (<<"history", n>> :>
                                    Request("history", "GET",
                                            <<"/users/history">>, <<>>,
                                            NoHeader, NoBody, n))
                           /\ pending' = (pending \ {r})
                                \cup {<<"personal", n>>, <<"history", n>>}
                           /\ runs' = [runs EXCEPT ![n].pc = "all"]
                           /\ UNCHANGED errorCause
                      ELSE /\ dash' = SetState([dash EXCEPT
                                                  !.popularSongs = DataOf(r),
                                                  !.loading = FALSE])
                           /\ pending' = pending \ {r}
                           /\ runs' = [runs EXCEPT ![n].pc = "done"]
                           /\ UNCHANGED <<sent, errorCause>>
              ELSE /\ dash' = SetState(CatchFetchDashboard(dash))
                   /\ errorCause' = SetCause(o.detail)
                   /\ pending' = pending \ {r}
                   /\ runs' = [runs EXCEPT ![n].pc = "done",
                                           ![n].failedAt = "popular"]
                   /\ UNCHANGED sent
    /\ AuthFrame
    /\ UNCHANGED <<location, pageAlive, mounted, dashEffectDue, selectedImage,
                   uploaderError, engineVars, playerVars, authPageVars>>

\* fetchDashboardData after Promise.all: the first rejection rejects it, and
\* it resolves when both requests have succeeded
PersonalAndHistoryResponse(r, o) ==
    /\ Idle
    /\ r \in pending
    /\ sent[r].kind \in {"personal", "history"}
    /\ o \in Outcomes(sent[r].kind)
    /\ ResponseInterceptor(o)
    /\ pending' = pending \ {r}
    /\ LET n == sent[r].run
           run == runs[n]
           got == run.got \cup {r}
           dataOf(kind) == DataOf(CHOOSE g \in got : sent[g].kind = kind)
       IN  IF run.pc # "all"
              THEN UNCHANGED <<dash, runs, errorCause>>
              ELSE IF ~o.ok
                      THEN /\ dash' = SetState(CatchFetchDashboard(dash))
                           /\ errorCause' = SetCause(o.detail)
                           /\ runs' = [runs EXCEPT ![n].pc = "done",
                                                   ![n].failedAt = "all"]
                      ELSE IF Cardinality(got) < 2
                              THEN /\ runs' = [runs EXCEPT ![n].got = got]
                                   /\ UNCHANGED <<dash, errorCause>>
                              ELSE /\ dash' = SetState([dash EXCEPT
                                        !.personalRecommendations =
                                            dataOf("personal"),
                                        !.recentlyPlayed = dataOf("history"),
                                        !.loading = FALSE])
                                   /\ runs' = [runs EXCEPT ![n].got = got,
                                                           ![n].pc = "done"]
                                   /\ UNCHANGED errorCause
    /\ AuthFrame
    /\ UNCHANGED <<location, pageAlive, sent, mounted, dashEffectDue,
                   selectedImage, uploaderError, engineVars, playerVars, authPageVars>>

\* the tab buttons of Dashboard
Tabs == {"discover", "mood", "image"}

SelectTab(t) ==
    /\ TabsShown
    /\ t \in Tabs
    /\ dash' = [dash EXCEPT !.selectedTab = t]
    /\ IF t = "image" /\ dash.selectedTab = "image"
          THEN UNCHANGED <<selectedImage, uploaderError>>
          ELSE UploaderReset
    /\ AuthFrame
    /\ UNCHANGED <<token, location, reloading, pageAlive, sent, pending,
                   mounted, dashEffectDue, runs, errorCause, engineVars, playerVars, authPageVars>>

\* the ids MoodSelector passes to onMoodSelect, one per mood card
MoodIds == {MoodCards[i] : i \in 1..Len(MoodCards)}

MoodRequests == {r \in DOMAIN sent : sent[r].kind = "mood"}

\* handleMoodSelect up to its await
MoodSelect(mood) ==
    /\ TabsShown
    /\ dash.selectedTab = "mood"
    /\ mood \in MoodIds
    /\ dash' = [dash EXCEPT !.selectedMood = mood,
                            !.loadingRecommendations = TRUE]
    /\ sent' = sent @@ (<<"mood", Cardinality(MoodRequests) + 1>> :>
                      Request("mood", "GET", <<"/recommendations/mood/", mood>>,
                              <<"limit", 10>>, NoHeader, NoBody, 0))
    /\ pending' = pending \cup {<<"mood", Cardinality(MoodRequests) + 1>>}
    /\ AuthFrame
    /\ UNCHANGED <<token, location, reloading, pageAlive, mounted,
                   dashEffectDue, runs, errorCause, selectedImage,
                   uploaderError, engineVars, playerVars, authPageVars>>

\* a click on a mood card
HandleMoodSelect(mood) ==
    /\ Cardinality(MoodRequests) < MaxMoodSelects
    /\ MoodSelect(mood)

\* handleMoodSelect after its await
MoodResponse(r, o) ==
    /\ Idle
    /\ r \in pending
    /\ sent[r].kind = "mood"
    /\ o \in Outcomes("mood")
    /\ ResponseInterceptor(o)
    /\ pending' = pending \ {r}
    /\ IF o.ok
          THEN /\ dash' = SetState([dash EXCEPT
                                      !.moodRecommendations = DataOf(r),
                                      !.loadingRecommendations = FALSE])
               /\ UNCHANGED errorCause
          ELSE /\ dash' = SetState([dash EXCEPT
                                      !.error = MsgMoodFailed,
                                      !.loadingRecommendations = FALSE])
               /\ errorCause' = SetCause(o.detail)
    /\ AuthFrame
    /\ UNCHANGED <<location, pageAlive, sent, mounted, dashEffectDue, runs,
                   selectedImage, uploaderError, engineVars, playerVars, authPageVars>>

\* handleImageUpload of Dashboard, called by ImageUploader; the call
\* api.getRecommendationsByImage(imageFile, 10) throws a TypeError inside the
\* try block when the imported object has no such member
HandleImageUpload(imageFile) ==
    IF imageFile = NoFile
       THEN /\ dash' = [dash EXCEPT !.uploadedImage = NoFile,
                                    !.imageRecommendations = <<>>,
                                    !.imageAnalysis = NoAnalysis]
            /\ UNCHANGED <<sent, pending, errorCause>>
       ELSE IF "getRecommendationsByImage" \in ApiDefaultExport
               THEN /\ dash' = [dash EXCEPT !.uploadedImage = imageFile,
                                            !.loadingRecommendations = TRUE]
                    /\ sent' = sent @@ (<<"image", imageFile>> :>
                                      Request("image", "POST",
                                              <<"/recommendations/image">>,
                                              <<>>, NoHeader,
                                              <<"file", imageFile,
                                                "limit", 10>>, 0))
                    /\ pending' = pending \cup {<<"image", imageFile>>}
                    /\ UNCHANGED errorCause
               ELSE /\ dash' = [dash EXCEPT !.uploadedImage = imageFile,
                                            !.error = MsgImageFailed,
                                            !.loadingRecommendations = FALSE]
                    /\ errorCause' = "TypeError"
                    /\ UNCHANGED <<sent, pending>>

\* String.prototype.startsWith on sequences of characters
StartsWith(s, prefix) ==
    /\ Len(s) >= Len(prefix)
    /\ SubSeq(s, 1, Len(prefix)) = prefix

\* a file chosen in, or dropped on, ImageUploader
ValidateAndProcessFile(file) ==
    /\ TabsShown
    /\ dash.selectedTab = "image"
    /\ file \in Files \cup {NoFile}
    /\ IF file = NoFile
          THEN /\ uploaderError' = NoError
               /\ UNCHANGED <<selectedImage, dash, sent, pending, errorCause>>
          ELSE IF ~StartsWith(FileType[file], <<"image", "/">>)
                  THEN /\ uploaderError' = "Please select an image file"
                       /\ UNCHANGED <<selectedImage, dash, sent, pending,
                                      errorCause>>
                  ELSE IF FileSize[file] > 5 * 1024 * 1024
                          THEN /\ uploaderError' =
                                      "File size must be less than 5MB"
                               /\ UNCHANGED <<selectedImage, dash, sent,
                                              pending, errorCause>>
                          ELSE /\ uploaderError' = NoError
                               /\ selectedImage' = file
                               /\ HandleImageUpload(file)
    /\ AuthFrame
    /\ UNCHANGED <<token, location, reloading, pageAlive, mounted,
                   dashEffectDue, runs, engineVars, playerVars, authPageVars>>

\* the remove button of the preview
HandleRemoveImage ==
    /\ TabsShown
    /\ dash.selectedTab = "image"
    /\ selectedImage # NoFile
    /\ selectedImage' = NoFile
    /\ HandleImageUpload(NoFile)
    /\ AuthFrame
    /\ UNCHANGED <<token, location, reloading, pageAlive, mounted,
                   dashEffectDue, runs, uploaderError, engineVars, playerVars, authPageVars>>

\* logout of AuthContext
Logout ==
    /\ token' = NoToken
    /\ user' = NoUser
    /\ location' = "/login"
    /\ UnmountDashboard

\* the logout link of Navbar, shown to an authenticated user
HandleLogout ==
    /\ Idle
    /\ user # NoUser
    /\ Logout
    /\ UNCHANGED <<reloading, pageAlive, sent, pending, authLoading,
                   authEffectDue, dashEffectDue, runs, engineVars, playerVars, authPageVars>>

\* the browser leaves the page after window.location.href was assigned;
\* nothing of the application runs afterwards
PageUnload ==
    /\ Idle
    /\ reloading
    /\ pageAlive' = FALSE
    /\ UnmountDashboard
    /\ pending' = {}
    /\ runs' = <<>>
    /\ user' = NoUser
    /\ location' = "/login"
    /\ UNCHANGED <<token, reloading, sent, authLoading, authEffectDue,
                   dashEffectDue, engineVars, playerVars, authPageVars>>

\* what localStorage may hold under 'token' when the page is opened
StoredTokens == {NoToken, ""} \cup Tokens

\* the recommendation service is not part of the page
EngineAtRest ==
    /\ candidates = <<>>
    /\ vectorStore = [i \in Songs |-> CHOOSE c \in SongChoices : c.plays = 2]
    /\ userHistory = {}
    /\ EngineTables
    /\ NoParallel
    /\ lastCall = NoCall
    /\ result = Ok(<<>>, 0)

Init ==
    /\ EngineAtRest
    /\ \E tok \in StoredTokens : FrontStart(tok)

AllOutcomes == UNION {Outcomes(k) : k \in {"me", "popular", "personal", "mood"}}

Next ==
    \/ FetchDashboardData
    \/ AuthProviderMount
    \/ \E r \in pending, o \in AllOutcomes : ProfileResponse(r, o)
    \/ \E r \in pending, o \in AllOutcomes : PopularResponse(r, o)
    \/ \E r \in pending, o \in AllOutcomes : PersonalAndHistoryResponse(r, o)
    \/ \E r \in pending, o \in AllOutcomes : MoodResponse(r, o)
    \/ \E t \in Tabs : SelectTab(t)
    \/ \E mood \in MoodIds : HandleMoodSelect(mood)
    \/ \E file \in Files \cup {NoFile} : ValidateAndProcessFile(file)
    \/ HandleRemoveImage
    \/ HandleLogout
    \/ PageUnload

Spec == Init /\ [][Next]_vars

\* React runs the effects of a render, and every request to /users/me is
\* answered or fails
FairSpec ==
    /\ Spec
    /\ WF_vars(FetchDashboardData)
    /\ WF_vars(AuthProviderMount)
    /\ WF_vars(\E r \in pending, o \in AllOutcomes : ProfileResponse(r, o))

-----------------------------------------------------------------------------
(* Mood cards clicked one after the other by a visitor who is not logged in
   (SpecMood) *)

\* the bound on the clicks on mood cards
MaxMoodClicks == 2

\* a click on a mood card of MoodSelector, also while an earlier selection is
\* still loading
ClickMoodCard(mood) ==
    /\ Cardinality(MoodRequests) < MaxMoodClicks
    /\ MoodSelect(mood)

InitMood == EngineAtRest /\ FrontStart(NoToken)

NextMood ==
    \/ FetchDashboardData
    \/ AuthProviderMount
    \/ \E r \in pending, o \in AllOutcomes : PopularResponse(r, o)
    \/ \E r \in pending, o \in AllOutcomes : MoodResponse(r, o)
    \/ \E t \in Tabs : SelectTab(t)
    \/ \E mood \in MoodIds : ClickMoodCard(mood)
    \/ PageUnload

SpecMood == InitMood /\ [][NextMood]_vars

-----------------------------------------------------------------------------
(* The player: PlayerProvider, the song rows and cards, AudioPlayer
   (SpecPlayer) *)

\* the bound on the songs a user starts in one page load
MaxPlays == 3

\* the songs of the lists on screen, and the path property of each
PlayerSongs == {"s1", "s2"}
SongPath == [s \in PlayerSongs |-> IF s = "s1" THEN "/audio/s1.mp3"
                                               ELSE "/audio/s2.mp3"]

\* HTMLMediaElement.play(): playback is requested and a promise is returned
AudioPlay(a) ==
    [a EXCEPT !.playing = TRUE, !.playPromise = "pending",
              !.playedSinceLoad = TRUE]

\* HTMLMediaElement.pause(): an outstanding play() promise is rejected
AudioPause(a) ==
    [a EXCEPT !.playing = FALSE,
              !.playPromise = IF @ = "pending" THEN "rejected" ELSE @]

\* audio.src = path; audio.load(): the element is reset and left paused, an
\* outstanding play() promise is rejected
AudioLoad(a, path) ==
    [a EXCEPT !.src = path, !.playing = FALSE, !.playedSinceLoad = FALSE,
              !.playPromise = IF @ = "pending" THEN "rejected" ELSE @]

\* no effect of PlayerProvider and no promise callback is waiting to run
PlayerIdle ==
    /\ pageAlive
    /\ playerEffects = {}
    /\ audio.playPromise # "rejected"

\* setIsPlaying(v): a render, and the [isPlaying] effect, only when v differs
SetIsPlaying(v) ==
    /\ isPlaying' = v
    /\ playerEffects' = IF v # isPlaying THEN playerEffects \cup {"isPlaying"}
                                         ELSE playerEffects

PlayerFrame == UNCHANGED <<engineVars, authPageVars, location, reloading,
                           pageAlive, user, authLoading, authEffectDue,
                           mounted, dash, dashEffectDue, runs, errorCause,
                           selectedImage, uploaderError>>

\* playSong of the context
PlaySong(song) ==
    /\ Len(changes) < MaxPlays
    /\ currentSong' = song
    /\ playerEffects' = playerEffects \cup {"currentSong"}
    /\ playerCall' = "playSong"
    /\ UNCHANGED <<isPlaying, audio>>

\* togglePlay of the context
TogglePlay ==
    /\ SetIsPlaying(~isPlaying)
    /\ playerCall' = "togglePlay"
    /\ UNCHANGED <<currentSong, audio>>

\* a click on a row of SongList or on a RecommendationCard
HandlePlaySong(song) ==
    /\ PlayerIdle
    /\ song \in PlayerSongs
    /\ IF currentSong # NoSong /\ currentSong = song
          THEN TogglePlay
          ELSE PlaySong(song)
    /\ UNCHANGED <<changes, token, sent, pending>>
    /\ PlayerFrame

\* the play button of AudioPlayer, rendered once a song is current
TogglePlayButton ==
    /\ PlayerIdle
    /\ currentSong # NoSong
    /\ TogglePlay
    /\ UNCHANGED <<changes, token, sent, pending>>
    /\ PlayerFrame

\* the stop button of AudioPlayer: stop of the context
StopButton ==
    /\ PlayerIdle
    /\ currentSong # NoSong
    /\ audio' = AudioPause(audio)
    /\ SetIsPlaying(FALSE)
    /\ playerCall' = "stop"
    /\ UNCHANGED <<currentSong, changes, token, sent, pending>>
    /\ PlayerFrame

\* the effect on [isPlaying]
IsPlayingEffect ==
    /\ pageAlive
    /\ "isPlaying" \in playerEffects
    /\ playerEffects' = playerEffects \ {"isPlaying"}
    /\ audio' = IF isPlaying THEN AudioPlay(audio) ELSE AudioPause(audio)
    /\ UNCHANGED <<currentSong, isPlaying, changes, playerCall, token, sent,
                   pending>>
    /\ PlayerFrame

\* a [currentSong] effect that posts whatever localStorage holds
RecordsHistoryAlways(tok) == TRUE

\* if (token) recordSongHistory(currentSong.id)
RecordsHistory(tok) == Truthy(tok)

\* the effect on [currentSong], declared after the one on [isPlaying];
\* recordSongHistory runs to its await
CurrentSongEffect ==
    /\ pageAlive
    /\ "currentSong" \in playerEffects
    /\ "isPlaying" \notin playerEffects
    /\ IF currentSong = NoSong
          THEN /\ playerEffects' = playerEffects \ {"currentSong"}
               /\ UNCHANGED <<isPlaying, audio, changes, sent, pending>>
          ELSE /\ audio' = AudioLoad(audio, SongPath[currentSong])
               /\ isPlaying' = TRUE
               /\ playerEffects' = IF isPlaying THEN {} ELSE {"isPlaying"}
               /\ changes' = Append(changes,
                                    [song |-> currentSong, token |-> token])
               /\ IF RecordsHistory(token)
                     THEN /\ sent' = sent @@
                                (<<"recordHistory", Len(changes) + 1>> :>
                                 Request("recordHistory", "POST",
                                         <<"/users/history/", currentSong>>,
                                         <<>>, Bearer(token), NoBody,
                                         Len(changes) + 1))
                          /\ pending' = pending
                                \cup {<<"recordHistory", Len(changes) + 1>>}
                     ELSE UNCHANGED <<sent, pending>>
    /\ UNCHANGED <<currentSong, playerCall, token>>
    /\ PlayerFrame

\* recordSongHistory after its await: a failure is only logged
RecordHistoryResponse(r, o) ==
    /\ pageAlive
    /\ r \in pending
    /\ sent[r].kind = "recordHistory"
    /\ o \in Outcomes("recordHistory")
    /\ ResponseInterceptor(o)
    /\ pending' = pending \ {r}
    /\ UNCHANGED <<engineVars, authPageVars, playerVars, location, pageAlive,
                   sent, user, authLoading, authEffectDue, mounted, dash,
                   dashEffectDue, runs, errorCause, selectedImage,
                   uploaderError>>

\* the browser starts the playback that play() asked for
PlayStarts ==
    /\ pageAlive
    /\ audio.playPromise = "pending"
    /\ audio' = [audio EXCEPT !.playPromise = "none"]
    /\ UNCHANGED <<currentSong, isPlaying, playerEffects, changes, playerCall,
                   token, sent, pending>>
    /\ PlayerFrame

\* the browser refuses or cannot start the playback
PlayFails ==
    /\ pageAlive
    /\ audio.playPromise = "pending"
    /\ audio' = [audio EXCEPT !.playPromise = "rejected", !.playing = FALSE]
    /\ UNCHANGED <<currentSong, isPlaying, playerEffects, changes, playerCall,
                   token, sent, pending>>
    /\ PlayerFrame

\* the catch callback of audioRef.current.play()
PlayRejected ==
    /\ pageAlive
    /\ playerEffects = {}
    /\ audio.playPromise = "rejected"
    /\ audio' = [audio EXCEPT !.playPromise = "none"]
    /\ SetIsPlaying(FALSE)
    /\ UNCHANGED <<currentSong, changes, playerCall, token, sent, pending>>
    /\ PlayerFrame

\* the 'ended' event: handleEnded
HandleEnded ==
    /\ PlayerIdle
    /\ audio.playing
    /\ audio.playPromise = "none"
    /\ audio' = [audio EXCEPT !.playing = FALSE]
    /\ SetIsPlaying(FALSE)
    /\ UNCHANGED <<currentSong, changes, playerCall, token, sent, pending>>
    /\ PlayerFrame

InitPlayer ==
    /\ EngineAtRest
    /\ \E tok \in StoredTokens : FrontStart(tok)

NextPlayer ==
    \/ \E song \in PlayerSongs : HandlePlaySong(song)
    \/ TogglePlayButton
    \/ StopButton
    \/ IsPlayingEffect
    \/ CurrentSongEffect
    \/ \E r \in pending, o \in AllOutcomes : RecordHistoryResponse(r, o)
    \/ PlayStarts
    \/ PlayFails
    \/ PlayRejected
    \/ HandleEnded

SpecPlayer == InitPlayer /\ [][NextPlayer]_vars

-----------------------------------------------------------------------------
(* The Login and Register pages and the login and register functions of
   AuthContext (SpecAuth) *)

\* the bound on the forms a user submits in one page load
MaxSubmits == 2

\* what a user types, character by character
UsernameInputs == {<<>>, <<"u">>}
EmailInputs == {<<>>, <<"a", "@", "b">>, <<"a", "@", "b", ".", "c">>}
PasswordInputs ==
    {<<>>, <<"p", "a", "s", "s", "1">>, <<"p", "a", "s", "s", "1", "2">>}

\* the access_token of a successful POST /users/token
AccessToken == "t1"

AuthPages == {"/login", "/register"}

\* [^\s@]
Plain(c) == c \notin {" ", "\t", "\n", "@"}

AllPlain(s) == \A i \in 1..Len(s) : Plain(s[i])

\* /^[^\s@]+@[^\s@]+\.[^\s@]+$/.test(email)
EmailRegexTest(email) ==
    \E i \in 2..Len(email) :
        /\ email[i] = "@"
        /\ AllPlain(SubSeq(email, 1, i - 1))
        /\ LET rest == SubSeq(email, i + 1, Len(email))
           IN  \E j \in 2..(Len(rest) - 1) :
                   /\ rest[j] = "."
                   /\ AllPlain(SubSeq(rest, 1, j - 1))
                   /\ AllPlain(SubSeq(rest, j + 1, Len(rest)))

\* the checks of Login.handleSubmit in their order: the message of the first
\* that fails, "" when all pass
LoginValidation(f) ==
    IF f.username = <<>> THEN "Username is required"
    ELSE IF f.password = <<>> THEN "Password is required"
    ELSE ""

\* a Register form that looks at the passwords before the email
RegisterValidationPasswordFirst(f) ==
    IF f.username = <<>> THEN "Username is required"
    ELSE IF f.password = <<>> THEN "Password is required"
    ELSE IF Len(f.password) < 6 THEN "Password must be at least 6 characters"
    ELSE IF f.password # f.confirmPassword THEN "Passwords do not match"
    ELSE IF f.email = <<>> THEN "Email is required"
    ELSE IF ~EmailRegexTest(f.email) THEN "Please enter a valid email address"
    ELSE ""

\* the checks of Register.handleSubmit in their order
RegisterValidation(f) ==
    IF f.username = <<>> THEN "Username is required"
    ELSE IF f.email = <<>> THEN "Email is required"
    ELSE IF ~EmailRegexTest(f.email) THEN "Please enter a valid email address"
    ELSE IF f.password = <<>> THEN "Password is required"
    ELSE IF Len(f.password) < 6 THEN "Password must be at least 6 characters"
    ELSE IF f.password # f.confirmPassword THEN "Passwords do not match"
    ELSE ""

\* error.response?.data?.detail
DetailOf(o) == IF o.hasResponse THEN o.detail ELSE ""

\* a catch block that never shows the server's detail
LoginErrorMessageFallback(o) == "Login failed. Please try again."

\* error.response?.data?.detail || 'Login failed. Please try again.'
LoginErrorMessage(o) ==
    IF DetailOf(o) # "" THEN DetailOf(o) ELSE "Login failed. Please try again."

\* a register whose catch block shows the fallback of login
RegisterErrorMessageOfLogin(o) == LoginErrorMessage(o)

\* error.response?.data?.detail || 'Registration failed. Please try again.'
RegisterErrorMessage(o) ==
    IF DetailOf(o) # "" THEN DetailOf(o)
                        ELSE "Registration failed. Please try again."

\* the answers to POST /users/token and POST /users/register
AuthOutcomes == {OkOutcome, Unauthorized, Failure(500, ""), NetworkError}

\* a request sent while localStorage holds tok
RequestHolding(tok, kind, method, url, params, callerAuth, body, run) ==
    RequestInterceptor(
        [kind |-> kind, method |-> method, url |-> url, params |-> params,
         auth |-> callerAuth, body |-> body, run |-> run,
         callerAuth |-> callerAuth, tokenAtSend |-> tok], tok)

\* the forms submitted so far: each starts a login or a register call
Submits ==
    {r \in DOMAIN sent :
        \/ sent[r].kind = "register"
        \/ sent[r].kind = "token" /\ <<"register", r[2]>> \notin DOMAIN sent}

\* a Login or Register page is on screen and its effects have run
PageIdle == pageAlive /\ location \in AuthPages /\ pageEffects = {}

\* the effects of the page whose dependencies a render of AuthProvider
\* changes: clearError is a new function in every render of the provider
ProviderEffects ==
    IF location' \notin AuthPages THEN {}
    ELSE (IF (user' = NoUser) # (user = NoUser) THEN {"redirect"} ELSE {})
         \cup (IF authError' # authError THEN {"copyError"} ELSE {})
         \cup (IF user' # user \/ authLoading' # authLoading
                    \/ authError' # authError
                  THEN {"clearErrors"} ELSE {})

\* navigate('/'): the page is replaced by the Dashboard
NavigateHome ==
    /\ location' = "/"
    /\ form' = FormInit
    /\ mounted' = TRUE
    /\ dashEffectDue' = TRUE

AuthFlowFrame == UNCHANGED <<engineVars, playerVars, pageAlive, authEffectDue,
                             dash, runs, errorCause, selectedImage,
                             uploaderError>>

\* the fields of the page on screen
FieldsOf(page) ==
    IF page = "/login" THEN {"username", "password"}
    ELSE {"username", "email", "password", "confirmPassword"}

InputsOf(field) ==
    IF field = "username" THEN UsernameInputs
    ELSE IF field = "email" THEN EmailInputs
    ELSE PasswordInputs

\* onChange of an input: setUsername, setEmail, setPassword or
\* setConfirmPassword with the new text
ChangeInput(field, value) ==
    /\ PageIdle
    /\ field \in FieldsOf(location)
    /\ value \in InputsOf(field)
    /\ form[field] # value
    /\ form' = [form EXCEPT ![field] = value]
    /\ pageEffects' = {"clearErrors"}
    /\ lastLogin' = [lastLogin EXCEPT !.error = NoError]
    /\ UNCHANGED <<token, location, reloading, sent, pending, user,
                   authLoading, mounted, dashEffectDue, authError>>
    /\ AuthFlowFrame

\* login(username, password) of AuthContext up to its first await; open is
\* the set of requests that stay unanswered
Login(n, username, password, open) ==
    /\ authLoading' = TRUE
    /\ authError' = NoError
    /\ sent' = sent @@ (<<"token", n>> :>
                 Request("token", "POST", <<"/users/token">>, <<>>, NoHeader,
                         <<username, password>>, n))
    /\ pending' = open \cup {<<"token", n>>}
    /\ lastLogin' = [settled |-> "pending", error |-> NoError]

\* handleSubmit of the Login page
LoginHandleSubmit ==
    /\ PageIdle
    /\ location = "/login"
    /\ IF LoginValidation(form) # ""
          THEN /\ form' = [form EXCEPT !.formError = LoginValidation(form)]
               /\ UNCHANGED <<authLoading, authError, sent, pending, lastLogin>>
          ELSE /\ Cardinality(Submits) < MaxSubmits
               /\ Login(Cardinality(Submits) + 1, form.username, form.password,
                        pending)
               /\ form' = form
    /\ UNCHANGED <<token, location, reloading, user, mounted, dashEffectDue>>
    /\ AuthFlowFrame
    /\ pageEffects' = IF LoginValidation(form) # "" THEN {} ELSE ProviderEffects

\* register(username, email, password) of AuthContext up to its first await
Register(n, username, email, password) ==
    /\ authLoading' = TRUE
    /\ authError' = NoError
    /\ sent' = sent @@ (<<"register", n>> :>
                 Request("register", "POST", <<"/users/register">>, <<>>,
                         NoHeader, <<username, email, password>>, n))
    /\ pending' = pending \cup {<<"register", n>>}

\* handleSubmit of the Register page
RegisterHandleSubmit ==
    /\ PageIdle
    /\ location = "/register"
    /\ IF RegisterValidation(form) # ""
          THEN /\ form' = [form EXCEPT !.formError = RegisterValidation(form)]
               /\ UNCHANGED <<authLoading, authError, sent, pending>>
          ELSE /\ Cardinality(Submits) < MaxSubmits
               /\ Register(Cardinality(Submits) + 1, form.username, form.email,
                           form.password)
               /\ form' = form
    /\ UNCHANGED <<token, location, reloading, user, mounted, dashEffectDue,
                   lastLogin>>
    /\ AuthFlowFrame
    /\ pageEffects' = IF RegisterValidation(form) # "" THEN {} ELSE ProviderEffects

\* login after the await of POST /users/token: on success the token is stored
\* and fetchUserProfile starts, otherwise the catch block runs
TokenResponse(r, o) ==
    /\ pageAlive
    /\ pageEffects = {}
    /\ r \in pending
    /\ sent[r].kind = "token"
    /\ o \in AuthOutcomes
    /\ IF o.ok
          THEN /\ token' = AccessToken
               /\ authLoading' = TRUE
               /\ sent' = sent @@ (<<"me", r[2]>> :>
                            RequestHolding(AccessToken, "me", "GET",
                                           <<"/users/me">>, <<>>,
                                           Bearer(AccessToken), NoBody, r[2]))
               /\ pending' = (pending \ {r}) \cup {<<"me", r[2]>>}
               /\ UNCHANGED <<reloading, authError, lastLogin>>
          ELSE /\ ResponseInterceptor(o)
               /\ authError' = LoginErrorMessage(o)
               /\ authLoading' = FALSE
               /\ lastLogin' = [settled |-> "resolved",
                                error |-> IF location = "/login"
                                             THEN LoginErrorMessage(o)
                                             ELSE NoError]
               /\ pending' = pending \ {r}
               /\ UNCHANGED sent
    /\ UNCHANGED <<user, location, form, mounted, dashEffectDue>>
    /\ AuthFlowFrame
    /\ pageEffects' = ProviderEffects

\* fetchUserProfile after its await, then the rest of login: navigate('/').
\* The catch of fetchUserProfile calls logout and rethrows nothing
LoginProfileResponse(r, o) ==
    /\ pageAlive
    /\ pageEffects = {}
    /\ r \in pending
    /\ sent[r].kind = "me"
    /\ o \in Outcomes("me")
    /\ pending' = pending \ {r}
    /\ authLoading' = FALSE
    /\ IF o.ok
          THEN /\ user' = "user"
               /\ ResponseInterceptor(o)
          ELSE /\ token' = NoToken
               /\ reloading' = (reloading \/ Is401(o))
               /\ user' = NoUser
    /\ NavigateHome
    /\ pageEffects' = {}
    /\ lastLogin' = [settled |-> "resolved", error |-> NoError]
    /\ UNCHANGED <<sent, authError>>
    /\ AuthFlowFrame

\* register after the await of POST /users/register: login is called on
\* success, otherwise the catch block runs
RegisterResponse(r, o) ==
    /\ pageAlive
    /\ pageEffects = {}
    /\ r \in pending
    /\ sent[r].kind = "register"
    /\ o \in AuthOutcomes
    /\ IF o.ok
          THEN /\ Login(r[2], sent[r].body[1], sent[r].body[3], pending \ {r})
               /\ UNCHANGED <<token, reloading>>
          ELSE /\ ResponseInterceptor(o)
               /\ authError' = RegisterErrorMessage(o)
               /\ authLoading' = FALSE
               /\ pending' = pending \ {r}
               /\ UNCHANGED <<sent, lastLogin>>
    /\ UNCHANGED <<user, location, form, mounted, dashEffectDue>>
    /\ AuthFlowFrame
    /\ pageEffects' = ProviderEffects

\* the effects of the page that are due after a render, in the order of
\* their declaration, each with the values of that render: the redirect of an
\* authenticated user, the copy of error into formError, and the clearing of
\* formError and error
RunPageEffects ==
    /\ pageAlive
    /\ location \in AuthPages
    /\ pageEffects # {}
    /\ LET copied == IF "copyError" \in pageEffects /\ Truthy(authError)
                        THEN authError ELSE form.formError
           shown == IF "clearErrors" \in pageEffects /\ form.formError # ""
                       THEN "" ELSE copied
       IN  /\ authError' = IF "clearErrors" \in pageEffects /\ Truthy(authError)
                              THEN NoError ELSE authError
           /\ IF "redirect" \in pageEffects /\ user # NoUser
                 THEN NavigateHome
                 ELSE /\ form' = [form EXCEPT !.formError = shown]
                      /\ UNCHANGED <<location, mounted, dashEffectDue>>
    /\ UNCHANGED <<token, reloading, sent, pending, user, authLoading,
                   lastLogin>>
    /\ AuthFlowFrame
    /\ pageEffects' = ProviderEffects

\* the link from the Login page to the Register page and back
FollowLink(page) ==
    /\ PageIdle
    /\ page \in AuthPages \ {location}
    /\ location' = page
    /\ form' = FormInit
    /\ pageEffects' = {"redirect", "copyError", "clearErrors"}
    /\ lastLogin' = [lastLogin EXCEPT !.error = NoError]
    /\ UNCHANGED <<token, reloading, sent, pending, user, authLoading,
                   mounted, dashEffectDue, authError>>
    /\ AuthFlowFrame

\* the browser leaves the page after the response interceptor assigned
\* window.location.href
AuthPageUnload ==
    /\ pageAlive
    /\ pageEffects = {}
    /\ reloading
    /\ pageAlive' = FALSE
    /\ pending' = {}
    /\ user' = NoUser
    /\ location' = "/login"
    /\ form' = FormInit
    /\ authError' = NoError
    /\ lastLogin' = NoLogin
    /\ mounted' = FALSE
    /\ dashEffectDue' = FALSE
    /\ UNCHANGED <<token, reloading, sent, authLoading, pageEffects,
                   authEffectDue, dash, runs, errorCause, selectedImage,
                   uploaderError, engineVars, playerVars>>

\* the application opened at /login by a visitor without a token, after the
\* start effect of AuthProvider
InitAuth ==
    /\ EngineAtRest
    /\ PlayerStart
    /\ token = NoToken
    /\ location = "/login"
    /\ reloading = FALSE
    /\ pageAlive = TRUE
    /\ sent = <<>>
    /\ pending = {}
    /\ user = NoUser
    /\ authLoading = FALSE
    /\ authEffectDue = FALSE
    /\ mounted = FALSE
    /\ dash = DashInit
    /\ dashEffectDue = FALSE
    /\ runs = <<>>
    /\ errorCause = NoError
    /\ selectedImage = NoFile
    /\ uploaderError = NoError
    /\ authError = NoError
    /\ form = FormInit
    /\ pageEffects = {"redirect", "copyError", "clearErrors"}
    /\ lastLogin = NoLogin

NextAuth ==
    \/ \E field \in FieldsOf("/register"), value \in PasswordInputs
              \cup UsernameInputs \cup EmailInputs : ChangeInput(field, value)
    \/ LoginHandleSubmit
    \/ RegisterHandleSubmit
    \/ \E r \in pending, o \in AuthOutcomes : TokenResponse(r, o)
    \/ \E r \in pending, o \in Outcomes("me") : LoginProfileResponse(r, o)
    \/ \E r \in pending, o \in AuthOutcomes : RegisterResponse(r, o)
    \/ RunPageEffects
    \/ \E page \in AuthPages : FollowLink(page)
    \/ AuthPageUnload

SpecAuth == InitAuth /\ [][NextAuth]_vars

-----------------------------------------------------------------------------
(* Claims about SimilarityEngine.rank (SpecRank) *)

IsRankCall == lastCall.op = "rank"

\* the fused vector of the candidate with this id
VecOfId(id) ==
    candidates[CHOOSE i \in 1..Len(candidates) : candidates[i].id = id].vec

SimOfId(id) == Cosine(lastCall.query, VecOfId(id))

\* the three songs of the concrete scenario: A = 1, B = 2, C = 3
ScenarioABC ==
    <<[id |-> 1, vec |-> <<1, 0>>], [id |-> 2, vec |-> <<0, 1>>],
      [id |-> 3, vec |-> <<1, 0>>]>>

ScenarioCall ==
    /\ candidates = ScenarioABC
    /\ lastCall = [op |-> "rank", query |-> <<1, 0>>, k |-> 2]

\* C1: the results of rank are in descending order of cosine similarity to
\* the query, two results of equal similarity are in ascending id order, and
\* rank(fuse(A), [A, B, C], 2) is exactly [A, C].
C1_RankOrder ==
    /\ (IsRankCall /\ result.status = "ok") =>
          \A i, j \in 1..Len(result.items) :
              i < j =>
                LET a == SimOfId(result.items[i].id)
                    b == SimOfId(result.items[j].id)
                IN  /\ ~ScoreLess(a, b)
                    /\ ScoreEq(a, b) => result.items[i].id < result.items[j].id
    /\ ScenarioCall => (result.status = "ok" /\ Ids(result.items) = <<1, 3>>)

\* C1 witness: the scenario has been ranked, the tie of A and C broken by id
C1_Witness ==
    /\ ScenarioCall
    /\ Ids(result.items) = <<1, 3>>
    /\ ScoreEq(result.items[1].score, result.items[2].score)

\* the number of candidates whose fused vector has a nonzero norm
NonZeroCount ==
    Cardinality({i \in 1..Len(candidates) : Norm2(candidates[i].vec) # 0})

-----------------------------------------------------------------------------
(* Claims about the recommendation requests (SpecEngine) *)

IsRequest ==
    lastCall.op \in {"recommendBySong", "recommendByMood", "recommendByImage",
                     "recommendPersonalized", "recommendPopular"}

\* C3: no recommendation request, in any sequence of requests, changes the
\* stored modality vectors, the candidate sequence passed to rank, the
\* FusionPolicy weights or the mood table.
C3_RequestsMutateNothing ==
    [][/\ vectorStore' = vectorStore
       /\ candidates' = candidates
       /\ fusionPolicy' = fusionPolicy
       /\ moodTable' = moodTable]_vars

\* C3 witness: a request has ranked the store's songs and returned results,
\* and the tables are those loaded at start
C3_Witness ==
    /\ lastCall.op = "recommendByMood"
    /\ result.status = "ok"
    /\ Len(result.items) = 2
    /\ moodTable = MoodVectors
    /\ fusionPolicy = Policies

\* C5: a request whose query vector cannot be built fails with the typed
\* error and returns no results: recommendByMood with a label outside the
\* closed set raises UnknownMoodError, recommendPersonalized for a user with
\* no liked/played songs raises InsufficientHistoryError.
C5_TypedErrors ==
    /\ (lastCall.op = "recommendByMood" /\ lastCall.arg \notin MoodLabels) =>
          result = Err("UnknownMoodError")
    /\ (lastCall.op = "recommendPersonalized" /\ lastCall.arg = {}) =>
          result = Err("InsufficientHistoryError")

\* C5 witness: recommendByMood("unknown-mood", k > 0) has failed over a store
\* whose songs an in-set label would have ranked
C5_Witness ==
    /\ lastCall.op = "recommendByMood"
    /\ lastCall.arg = "unknown-mood"
    /\ lastCall.k > 0
    /\ result.status = "UnknownMoodError"
    /\ ~FuseFails(vectorStore, fusionPolicy.byMood)

\* C5, its second case: recommendPersonalized has failed for an empty history
C5_WitnessHistory ==
    /\ lastCall.op = "recommendPersonalized"
    /\ userHistory = {}
    /\ result.status = "InsufficientHistoryError"


-----------------------------------------------------------------------------
(* Claims about the parallel ranking (SpecMerge) *)

MergeDone == lastCall.op = "parallelRank" /\ pendingParts = {}

\* C4: when ranking is split across independent candidate subsets and the
\* partial results are merged, the final top-k list is the same whatever the
\* order the partial results arrive in, and it is the list one sequential
\* rank call on the same query, candidates and k returns.
C4_MergeIsSequentialRank ==
    MergeDone =>
        /\ merged.items = result.items
        /\ (merged.status = "ok") = (result.status = "ok")
        /\ merged.status = "ok" => merged = result

\* C4 witness: both parts held results, tied across the parts, and the cut to
\* k dropped some of them
C4_Witness ==
    /\ MergeDone
    /\ merged.status = "ok"
    /\ Len(merged.items) = 2
    /\ Len(candidates) = MaxSongs
    /\ merged.skipped = 0
    /\ ScoreEq(merged.items[1].score, merged.items[2].score)
    /\ merged.items[1].id = 1
    /\ merged.items[2].id = MaxSongs
    /\ lastCall.split[1] # lastCall.split[MaxSongs]

-----------------------------------------------------------------------------
(* Claims about the Dashboard page (Spec) *)

\* what Dashboard renders: the spinner while loading, otherwise the error
\* banner and the content of the selected tab; the Discover tab passes
\* popularSongs to the SongList of its popular section
View ==
    IF dash.loading
       THEN [screen |-> "spinner", error |-> NoError, tab |-> "none",
             popularSection |-> <<>>]
       ELSE [screen |-> "tabs", error |-> dash.error,
             tab |-> dash.selectedTab,
             popularSection |-> IF dash.selectedTab = "discover"
                                   THEN dash.popularSongs ELSE <<>>]

IsMoodUrl(url) == Len(url) = 2 /\ url[1] = "/recommendations/mood/"

\* C6: every label MoodSelector can pass to onMoodSelect, and so every label
\* of a GET /recommendations/mood/<label> request the page has sent and every
\* selectedMood, belongs to the closed set happy, sad, energetic, calm,
\* romantic, melancholic
C6_MoodLabelsClosed ==
    /\ MoodIds \subseteq MoodLabels
    /\ dash.selectedMood \in MoodLabels \cup {NoMood}
    /\ \A r \in DOMAIN sent :
          IsMoodUrl(sent[r].url) =>
              /\ sent[r].method = "GET"
              /\ sent[r].url[2] \in MoodLabels

\* a mood request for the last card of MoodSelector has been sent and answered
C6_Witness ==
    \E r \in DOMAIN sent \ pending :
        /\ sent[r].url = <<"/recommendations/mood/", "melancholic">>
        /\ dash.selectedMood = "melancholic"

\* the messages the Dashboard shows for a failure that is neither an
\* UnknownMoodError nor an InsufficientHistoryError
GenericFailureMessages == {MsgLoadFailed, MsgMoodFailed, MsgImageFailed}

\* C7: when the failure shown was caused by an UnknownMoodError or an
\* InsufficientHistoryError, the message on screen is specific to that cause:
\* it is none of the messages shown for other failures
C7_ActionableMessages ==
    (mounted /\ dash.error # NoError
       /\ errorCause \in {"UnknownMoodError", "InsufficientHistoryError"})
        => dash.error \notin GenericFailureMessages

\* the popular requests of this page load that were answered
AnsweredPopular == {r \in DOMAIN sent \ pending : sent[r].kind = "popular"}

PersonalizedFailed ==
    /\ mounted
    /\ \E n \in 1..Len(runs) : runs[n].failedAt = "all"

\* C8: once the personalized or history request of fetchDashboardData has
\* failed, loading has ended, popularSongs holds the songs of a popular
\* response of this page load, and the Discover tab shows them
C8_PopularFallback ==
    PersonalizedFailed =>
        /\ ~dash.loading
        /\ dash.popularSongs # <<>>
        /\ dash.popularSongs \in {DataOf(r) : r \in AnsweredPopular}
        /\ View.screen = "tabs"
        /\ View.tab = "discover" => View.popularSection = dash.popularSongs

\* the personalized request failed with InsufficientHistoryError and the
\* Discover tab is on screen
C8_Witness ==
    /\ PersonalizedFailed
    /\ errorCause = "InsufficientHistoryError"
    /\ View.tab = "discover"
    /\ View.popularSection = DataOf(<<"popular", 2>>)

\* C9: once handleImageUpload has stored an accepted image file, a POST
\* /recommendations/image request carrying that file and limit 10 has been
\* issued
C9_ImagePostIssued ==
    (mounted /\ dash.uploadedImage # NoFile) =>
        \E r \in DOMAIN sent :
            /\ sent[r].method = "POST"
            /\ sent[r].url = <<"/recommendations/image">>
            /\ sent[r].body = <<"file", dash.uploadedImage, "limit", 10>>

\* C10: a request sent while localStorage holds a token carries Authorization:
\* Bearer <the token held when it was sent>; a request sent while no token is
\* stored carries the headers its caller gave it and nothing more
C10_BearerHeader ==
    \A r \in DOMAIN sent :
        IF Truthy(sent[r].tokenAtSend)
           THEN sent[r].auth = Bearer(sent[r].tokenAtSend)
           ELSE sent[r].auth = sent[r].callerAuth

\* one request left with the token, and after a 401 answer removed the token
\* another request of the same page load left without a header
C10_Witness ==
    \E r1, r2 \in DOMAIN sent :
        /\ sent[r1].tokenAtSend \in Tokens
        /\ sent[r1].auth = Bearer(sent[r1].tokenAtSend)
        /\ sent[r2].tokenAtSend = NoToken
        /\ sent[r2].auth = NoHeader

\* the continuation of the caller of request r runs with outcome o
ResponseStep(r, o) ==
    \/ ProfileResponse(r, o)
    \/ PopularResponse(r, o)
    \/ PersonalAndHistoryResponse(r, o)
    \/ MoodResponse(r, o)

\* the caller of r was handed the rejection: its catch block has run
RejectionDelivered(r) ==
    LET kind == sent[r].kind
        n == sent[r].run
    IN  /\ kind = "me" => user' = NoUser /\ location' = "/login" /\ ~mounted'
        /\ kind = "popular" =>
              /\ runs'[n].failedAt = "popular"
              /\ mounted => dash'.error = MsgLoadFailed /\ ~dash'.loading
        /\ (kind \in {"personal", "history"} /\ runs[n].pc = "all") =>
              /\ runs'[n].failedAt = "all"
              /\ mounted => dash'.error = MsgLoadFailed /\ ~dash'.loading
        /\ (kind = "mood" /\ mounted) =>
              dash'.error = MsgMoodFailed /\ ~dash'.loadingRecommendations

DiscoverShown == mounted /\ ~dash.loading /\ dash.selectedTab = "discover"

RecommendedShown ==
    DiscoverShown /\ user # NoUser /\ Len(dash.personalRecommendations) > 0

RecentlyPlayedShown ==
    DiscoverShown /\ user # NoUser /\ Len(dash.recentlyPlayed) > 0

\* C12: GET /recommendations/user and GET /users/history are sent only by a
\* run of fetchDashboardData in which isAuthenticated was true, every run
\* sends GET /recommendations/popular, and the Recommended for You and
\* Recently Played sections are on screen only for an authenticated user
C12_AuthGating ==
    /\ pageAlive =>
          /\ \A r \in DOMAIN sent :
                sent[r].kind \in {"personal", "history"} =>
                    /\ runs[sent[r].run].isAuthenticated
                    /\ sent[r].method = "GET"
                    /\ sent[r].url \in {<<"/recommendations/user">>,
                                        <<"/users/history">>}
          /\ \A n \in 1..Len(runs) :
                /\ <<"popular", n>> \in DOMAIN sent
                /\ sent[<<"popular", n>>].url = <<"/recommendations/popular">>
    /\ RecommendedShown => user # NoUser
    /\ RecentlyPlayedShown => user # NoUser

\* an anonymous run and an authenticated run have both finished, only the
\* second asked for the personalized data, and its sections are on screen
C12_Witness ==
    /\ Len(runs) = 2
    /\ ~runs[1].isAuthenticated /\ runs[1].pc = "done"
    /\ runs[2].isAuthenticated /\ runs[2].pc = "done"
    /\ <<"personal", 1>> \notin DOMAIN sent
    /\ <<"personal", 2>> \in DOMAIN sent
    /\ RecommendedShown
    /\ RecentlyPlayedShown

\* the profile is requested only for a token found at the start of the page
ProfileOnlyWithToken ==
    \A r \in DOMAIN sent :
        sent[r].kind = "me" => sent[r].tokenAtSend \notin {NoToken, ""}

\* C16: at the start of the application the profile is requested when a
\* token is stored and not otherwise; a successful answer sets user, a failed
\* one removes the token, sets user to null and navigates to /login; loading
\* becomes false in every case, as long as the page is not left before
C16_AppStart ==
    /\ []ProfileOnlyWithToken
    /\ [][/\ AuthProviderMount
             => IF token \notin {NoToken, ""}
                   THEN /\ <<"me", 0>> \in pending' \ pending
                        /\ sent'[<<"me", 0>>].url = <<"/users/me">>
                        /\ sent'[<<"me", 0>>].auth = <<"Bearer", token>>
                   ELSE /\ sent' = sent
                        /\ authLoading' = FALSE
          /\ \A r \in pending, o \in AllOutcomes :
                ProfileResponse(r, o)
                => /\ authLoading' = FALSE
                   /\ IF o.ok
                         THEN /\ user' # NoUser
                              /\ token' = token
                              /\ location' = location
                         ELSE /\ token' = NoToken
                              /\ user' = NoUser
                              /\ location' = "/login"]_vars
    /\ <>(~pageAlive \/ ~authLoading)

\* a stored token whose profile request failed with a server error
C16_Witness ==
    /\ pageAlive
    /\ ~reloading
    /\ <<"me", 0>> \in DOMAIN sent \ pending
    /\ sent[<<"me", 0>>].tokenAtSend = "t1"
    /\ token = NoToken
    /\ user = NoUser
    /\ location = "/login"
    /\ ~authLoading

-----------------------------------------------------------------------------
(* Claims about the player (SpecPlayer) *)

\* every effect and promise callback that a call set off has run
PlayerSettled == playerEffects = {} /\ audio.playPromise # "rejected"

\* C13: once a playSong call with another song has been worked off, the audio
\* element has the new song's path as its source and play() was invoked after
\* the load() of that source
C13_PlaySongStartsPlayback ==
    (PlayerSettled /\ playerCall = "playSong") =>
        /\ audio.src = SongPath[currentSong]
        /\ audio.playedSinceLoad

\* the POST /users/history requests of this page load
HistoryPosts == {r \in DOMAIN sent : sent[r].kind = "recordHistory"}

\* one request per change of currentSong made while a token was stored, none
\* for a change made without one, and each names the song of its change
HistoryPostsMatchChanges ==
    /\ \A k \in 1..Len(changes) :
          Truthy(changes[k].token) <=> <<"recordHistory", k>> \in HistoryPosts
    /\ \A r \in HistoryPosts :
          /\ r[2] \in 1..Len(changes)
          /\ sent[r].method = "POST"
          /\ sent[r].url = <<"/users/history/", changes[r[2]].song>>
          /\ Truthy(sent[r].tokenAtSend)

\* C14: POST /users/history/<songId> is sent once for each change of
\* currentSong to a song made while a token is stored and never without a
\* token; a step sends one only when it loads a newly selected song, so a
\* click on the current song, the play button, stop and the end of a song
\* send none
C14_HistoryOncePerChange ==
    /\ []HistoryPostsMatchChanges
    /\ [][sent' # sent =>
            /\ Len(changes') = Len(changes) + 1
            /\ currentSong' = currentSong
            /\ playerCall = "playSong"
            /\ Cardinality(DOMAIN sent') = Cardinality(DOMAIN sent) + 1]_vars

\* a song was started with the token stored, a 401 answer removed the token,
\* another song was started without it, and the current song was then toggled
C14_Witness ==
    /\ \E k1, k2 \in 1..Len(changes) :
          /\ changes[k1].token \in Tokens
          /\ changes[k2].token = NoToken
    /\ Cardinality(HistoryPosts) = 1
    /\ playerCall = "togglePlay"
    /\ PlayerSettled
-----------------------------------------------------------------------------
(* Claims about the Login and Register pages (SpecAuth) *)

\* C15: after a failed login set the error of AuthContext, the Login page
\* shows that error in formError, once its effects have run, for as long as
\* the user changes neither the username nor the password
C15_LoginErrorKeptUntilInput ==
    (pageAlive /\ location = "/login" /\ pageEffects = {}
        /\ lastLogin.error # NoError)
    => form.formError = lastLogin.error
\* what the catch block of login or register is to show for a failed answer:
\* the detail of the server when there is one
ExpectedMessage(o, fallback) ==
    IF o.hasResponse /\ o.detail # "" THEN o.detail ELSE fallback

\* C17: when POST /users/token fails, login writes no token, leaves user
\* alone, does not navigate, sends no profile request, sets error to the
\* detail of the server or to 'Login failed. Please try again.', sets loading
\* to false, and its promise resolves instead of rejecting
C17_LoginFailure ==
    [][\A r \in pending, o \in AuthOutcomes :
          (~o.ok /\ TokenResponse(r, o))
          => /\ token' \in {token, NoToken}
             /\ user' = user
             /\ location' = location
             /\ sent' = sent
             /\ authError' =
                    ExpectedMessage(o, "Login failed. Please try again.")
             /\ authLoading' = FALSE
             /\ lastLogin'.settled = "resolved"]_vars

\* a login refused by the server with a detail, before the effects of the
\* page have run
C17_Witness ==
    /\ pageAlive
    /\ location = "/login"
    /\ lastLogin.settled = "resolved"
    /\ authError = "Unauthorized"
    /\ token = NoToken
    /\ user = NoUser
    /\ ~authLoading

\* no login of a register call starts while the answer to its POST
\* /users/register is outstanding
LoginAfterRegisterAnswer ==
    \A r \in pending :
        sent[r].kind = "register" => <<"token", r[2]>> \notin DOMAIN sent

\* C18: register calls login only once POST /users/register has succeeded,
\* with the username and password it was given; when the request fails login
\* is not called, no token is stored, error is the detail of the server or
\* 'Registration failed. Please try again.', and loading is false
C18_RegisterThenLogin ==
    /\ []LoginAfterRegisterAnswer
    /\ [][/\ \A r \in pending, o \in AuthOutcomes :
                RegisterResponse(r, o)
                => IF o.ok
                      THEN /\ DOMAIN sent' = DOMAIN sent \cup {<<"token", r[2]>>}
                           /\ <<"token", r[2]>> \notin DOMAIN sent
                           /\ sent'[<<"token", r[2]>>].body =
                                  <<sent[r].body[1], sent[r].body[3]>>
                      ELSE /\ sent' = sent
                           /\ token' \in {token, NoToken}
                           /\ authError' = ExpectedMessage(o,
                                  "Registration failed. Please try again.")
                           /\ authLoading' = FALSE
          /\ \A q \in DOMAIN sent' \ DOMAIN sent :
                (q[1] = "token" /\ <<"register", q[2]>> \in DOMAIN sent)
                => /\ <<"register", q[2]>> \in pending
                   /\ RegisterResponse(<<"register", q[2]>>, OkOutcome)]_vars

\* a registration that succeeded and whose login is under way
C18_Witness ==
    \E r \in DOMAIN sent :
        /\ sent[r].kind = "register"
        /\ <<"token", r[2]>> \in pending
        /\ sent[<<"token", r[2]>>].body = <<sent[r].body[1], sent[r].body[3]>>

\* what the email pattern accepts and rejects
EmailPatternSamples ==
    /\ EmailRegexTest(<<"a", "@", "b", ".", "c">>)
    /\ EmailRegexTest(<<"a", ".", "x", "@", "b", ".", "c", ".", "d">>)
    /\ ~EmailRegexTest(<<>>)
    /\ ~EmailRegexTest(<<"a", "@", "b">>)
    /\ ~EmailRegexTest(<<"@", "b", ".", "c">>)
    /\ ~EmailRegexTest(<<"a", "@", ".", "c">>)
    /\ ~EmailRegexTest(<<"a", "@", "b", ".">>)
    /\ ~EmailRegexTest(<<"a", "@", "@", "b", ".", "c">>)
    /\ ~EmailRegexTest(<<"a", " ", "@", "b", ".", "c">>)
    /\ ~EmailRegexTest(<<"a", "@", "b", ".", "c", " ">>)

\* C19: Login.handleSubmit calls login only with a non-empty username and
\* password, Register.handleSubmit calls register only with a non-empty
\* username, an email that matches the pattern, a password of at least 6
\* characters and an equal confirmation; otherwise nothing is sent and
\* formError is the message of the first check that fails, in that order
C19_SubmitValidation ==
    /\ []EmailPatternSamples
    /\ [][/\ LoginHandleSubmit
             => IF form.username # <<>> /\ form.password # <<>>
                   THEN /\ DOMAIN sent' \ DOMAIN sent
                               = {<<"token", Cardinality(Submits) + 1>>}
                        /\ sent'[<<"token", Cardinality(Submits) + 1>>].body
                               = <<form.username, form.password>>
                   ELSE /\ sent' = sent
                        /\ form'.formError =
                               IF form.username = <<>>
                                  THEN "Username is required"
                                  ELSE "Password is required"
          /\ RegisterHandleSubmit
             => IF /\ form.username # <<>>
                   /\ EmailRegexTest(form.email)
                   /\ Len(form.password) >= 6
                   /\ form.password = form.confirmPassword
                   THEN /\ DOMAIN sent' \ DOMAIN sent
                               = {<<"register", Cardinality(Submits) + 1>>}
                        /\ sent'[<<"register", Cardinality(Submits) + 1>>].body
                               = <<form.username, form.email, form.password>>
                   ELSE /\ sent' = sent
                        /\ form'.formError =
                               IF form.username = <<>>
                                  THEN "Username is required"
                               ELSE IF form.email = <<>>
                                  THEN "Email is required"
                               ELSE IF ~EmailRegexTest(form.email)
                                  THEN "Please enter a valid email address"
                               ELSE IF form.password = <<>>
                                  THEN "Password is required"
                               ELSE IF Len(form.password) < 6
                                  THEN "Password must be at least 6 characters"
                               ELSE "Passwords do not match"]_vars

\* a Register form refused for its email although its password is too short
\* as well
C19_Witness ==
    /\ pageAlive
    /\ location = "/register"
    /\ form.formError = "Please enter a valid email address"
    /\ form.email = <<"a", "@", "b">>
    /\ Len(form.password) = 5
    /\ sent = <<>>
-----------------------------------------------------------------------------
(* Claims about the mood tab (SpecMood) *)

\* the mood requests of the page, all answered successfully
MoodsSettled ==
    /\ pageAlive
    /\ mounted
    /\ MoodRequests \cap pending = {}
    /\ dash.error = NoError

\* C20: when a second mood is selected before the first selection was
\* answered, then once both requests have succeeded moodRecommendations
\* holds the answer to the request for the mood selected last, which is
\* selectedMood
C20_LastMoodWins ==
    (/\ MoodsSettled
     /\ Cardinality(MoodRequests) = 2
     /\ sent[<<"mood", 1>>].url # sent[<<"mood", 2>>].url)
    => /\ sent[<<"mood", 2>>].url = <<"/recommendations/mood/", dash.selectedMood>>
       /\ dash.moodRecommendations = DataOf(<<"mood", 2>>)

====
